---- MODULE Spec2Model ----
(***************************************************************************)
(* Model of the log ingestion and storage schema of                        *)
(* src/bin/clickhouse-logs.sql: the Kafka source table kafka_logs_avro,    *)
(* the materialized view kafka_logs_avro_mv that feeds the primary table   *)
(* logs22 (ReplicatedReplacingMergeTree with two projections), and the     *)
(* materialized view log_to_log_attributes that feeds the rollup table     *)
(* log_attributes.                                                         *)
(*                                                                         *)
(* Time is counted in whole seconds since the epoch.  Columns that the     *)
(* pipeline only copies from the payload into logs22 and that no key,      *)
(* projection, view or index reads (trace_flags, observed_timestamp,       *)
(* severity_number, instrumentation_scope, event_name, the float and       *)
(* datetime attribute maps) are not carried; body stands for them as the   *)
(* non-key payload column.                                                 *)
(***************************************************************************)
EXTENDS Integers, Sequences, FiniteSets, Bags, TLC

(***************************************************************************)
(* Bounds of the model.                                                    *)
(***************************************************************************)
\* messages the consumer reads, a message read again counted again
MaxReads == 3
\* SETTINGS kafka_skip_broken_messages (sql line 157: 100), scaled down
kafka_skip_broken_messages == 1
\* SETTINGS kafka_max_block_size (sql line 163: 10), scaled down
kafka_max_block_size == 2

(***************************************************************************)
(* Time constants of the schema, in seconds.                               *)
(***************************************************************************)
\* toStartOfInterval(timestamp, interval 1 minute), toStartOfMinute
MinuteSecs == 60
\* toStartOfInterval(timestamp, toIntervalMinute(10))
TenMinuteSecs == 600
\* toDate(timestamp), toDate(time_bucket)
DaySecs == 86400
\* length(k) < 256, length(v) > 256
AttrLimit == 256

VARIABLES topic, committed, pos, block, errs, logs22, log_attributes, now,
          reads, acked, inserted, brokenRun, last

vars == <<topic, committed, pos, block, errs, logs22, log_attributes, now,
          reads, acked, inserted, brokenRun, last>>

(***************************************************************************)
(* Strings whose characters matter are sequences of one-character strings. *)
(***************************************************************************)
DigitValue(c) ==
    CASE c = "0" -> 0 [] c = "1" -> 1 [] c = "2" -> 2 [] c = "3" -> 3
      [] c = "4" -> 4 [] c = "5" -> 5 [] c = "6" -> 6 [] c = "7" -> 7
      [] c = "8" -> 8 [] c = "9" -> 9 [] OTHER -> -1

\* Int32 bounds: -2147483648 .. 2147483647
Int32Tenth == 214748364

RECURSIVE ParseInt32(_, _, _, _)
\* reads s[i..] as decimal digits onto acc (acc keeps the sign); the result is
\* <<ok, value>>
ParseInt32(s, i, neg, acc) ==
    IF i > Len(s) THEN <<TRUE, acc>>
    ELSE LET d == DigitValue(s[i]) IN
         IF d < 0 THEN <<FALSE, 0>>
         ELSE IF neg
              THEN IF acc < -Int32Tenth \/ (acc = -Int32Tenth /\ d > 8)
                   THEN <<FALSE, 0>>
                   ELSE ParseInt32(s, i + 1, neg, acc * 10 - d)
              ELSE IF acc > Int32Tenth \/ (acc = Int32Tenth /\ d > 7)
                   THEN <<FALSE, 0>>
                   ELSE ParseInt32(s, i + 1, neg, acc * 10 + d)

\* toInt32OrZero(String): the parsed Int32, 0 when the text is no Int32
toInt32OrZero(s) ==
    LET signed == Len(s) > 0 /\ s[1] \in {"-", "+"}
        first  == IF signed THEN 2 ELSE 1
        res    == ParseInt32(s, first, signed /\ s[1] = "-", 0)
    IN  IF first > Len(s) THEN 0
        ELSE IF res[1] THEN res[2] ELSE 0

RECURSIVE indexOfFrom(_, _, _)
indexOfFrom(names, x, i) ==
    IF i > Len(names) THEN 0
    ELSE IF names[i] = x THEN i ELSE indexOfFrom(names, x, i + 1)

\* indexOf(arr, x): 1-based index of the first element equal to x, else 0
indexOf(names, x) == indexOfFrom(names, x, 1)

\* arr[i] with a non-constant index: the default value (empty string) when
\* i is outside the array
arrayElement(values, i) ==
    IF i >= 1 /\ i <= Len(values) THEN values[i] ELSE <<>>

\* _headers.name and _headers.value of a message
HeaderNames(headers)  == [i \in 1..Len(headers) |-> headers[i][1]]
HeaderValues(headers) == [i \in 1..Len(headers) |-> headers[i][2]]

\* toInt32OrZero(_headers.value[indexOf(_headers.name, 'team_id')])
HeaderTeamId(headers) ==
    toInt32OrZero(arrayElement(HeaderValues(headers),
                               indexOf(HeaderNames(headers), "team_id")))

(***************************************************************************)
(* Payload entries (Avro records) and messages.                            *)
(***************************************************************************)
\* an attribute string: its text as stored, its length, and what
\* JSONExtract reads from it
AStr(raw, len, json, inner) ==
    [raw |-> raw, len |-> len, json |-> json, inner |-> inner]

EnvKey   == AStr("env", 3, "invalid", "")
ProdVal  == AStr("\"prod\"", 6, "string", "prod")
\* keys of 255 and of 256 characters, named by their length
Key255   == AStr("k255", AttrLimit - 1, "invalid", "")
Key256   == AStr("k256", AttrLimit, "invalid", "")
\* JSON strings of 255, 256 and 257 characters (two of them the quotes)
Val255   == AStr("\"v253\"", AttrLimit - 1, "string", "v253")
Val256   == AStr("\"v254\"", AttrLimit, "string", "v254")
Val257   == AStr("\"v255\"", AttrLimit + 1, "string", "v255")
\* a JSON number
CodeKey  == AStr("code", 4, "invalid", "")
Num42    == AStr("42", 2, "number", "42")

\* the entries carry two fields kafka_logs_avro has no column for
\* (team_id, time_bucket); the Avro reader has nothing to put them in
EntryA ==
    [uuid |-> "u1", trace_id |-> "T1", span_id |-> "s1", timestamp |-> 30,
     body |-> <<"o", "k">>, severity_text |-> "info",
     service_name |-> "api",
     resource_attributes |-> "ra1", resource_id |-> "r1",
     attributes |-> {<<EnvKey, ProdVal>>, <<Key255, Val256>>,
                     <<Key256, Val255>>},
     attributes_map_str |-> {<<"service.name__str", "api">>},
     team_id |-> 7, time_bucket |-> 120]

EntryB ==
    [uuid |-> "u2", trace_id |-> "T1", span_id |-> "s2",
     timestamp |-> DaySecs + 75,
     body |-> <<"e", "r", "r", "o", "r">>, severity_text |-> "warn",
     service_name |-> "api",
     resource_attributes |-> "ra1", resource_id |-> "r2",
     attributes |-> {<<EnvKey, Val257>>, <<Key255, Val255>>,
                     <<CodeKey, Num42>>},
     attributes_map_str |-> {<<"service.name__str", "api">>},
     team_id |-> 9, time_bucket |-> 0]

\* EntryB sent again with other content: every column of the sorting key
\* is the same, resource_id, attributes and attributes_map_str differ, and
\* attributes_map_str names another service than service_name
EntryC ==
    [EntryB EXCEPT !.resource_id = "r3",
                   !.attributes = {<<EnvKey, ProdVal>>},
                   !.attributes_map_str = {<<"service.name__str", "web">>}]

\* an entry the Avro reader cannot decode: bytes that hold no record
Bad == [garbage |-> "x"]

Decodable(e) == "uuid" \in DOMAIN e

Header(name, value) == <<name, value>>

Sender(kind, team) == [kind |-> kind, team |-> team]

\* a message: its headers and its Avro entries; sender says what the
\* producer put in the team_id header (the tenant, or why there is none)
Message(sender, headers, entries) ==
    [sender |-> sender, headers |-> headers, entries |-> entries]

Messages ==
    { Message(Sender("tenant", 1),
              <<Header("token", <<"9">>), Header("team_id", <<"1">>)>>,
              <<EntryA>>),
      Message(Sender("tenant", 2),
              <<Header("team_id", <<"2">>), Header("team_id", <<"1">>)>>,
              <<EntryA>>),
      Message(Sender("missing", 0),
              <<Header("token", <<"1">>)>>,
              <<EntryB>>),
      Message(Sender("malformed", 0),
              <<Header("team_id", <<"1", "x">>)>>,
              <<EntryC>>),
      Message(Sender("malformed", 0),
              <<Header("team_id",
                       <<"2", "1", "4", "7", "4", "8", "3", "6", "4", "8">>)>>,
              <<EntryB>>),
      Message(Sender("tenant", 1),
              <<Header("team_id", <<"1">>)>>,
              <<EntryB, Bad>>) }

Days == {0, 1}

\* a message the format cannot parse: one of its entries is undecodable
Broken(m) == \E i \in 1..Len(m.entries) : ~Decodable(m.entries[i])

(***************************************************************************)
(* logs22: columns, sorting key, partition key.                            *)
(***************************************************************************)
\* toStartOfInterval(t, n seconds)
toStartOfInterval(t, n) == t - (t % n)

\* toDate(t), as a day number
toDate(t) == t \div DaySecs

\* MvRow with team_id read from the payload instead of the headers
MvRowPayloadTeam(e, headers) ==
    [uuid |-> e.uuid, trace_id |-> e.trace_id, span_id |-> e.span_id,
     timestamp |-> e.timestamp, body |-> e.body,
     severity_text |-> e.severity_text, service_name |-> e.service_name,
     resource_attributes |-> e.resource_attributes,
     resource_id |-> e.resource_id, attributes |-> e.attributes,
     attributes_map_str |-> e.attributes_map_str,
     team_id |-> e.team_id]

\* one row kafka_logs_avro_mv selects from one decoded entry: the columns of
\* kafka_logs_avro (SELECT *) and team_id from the headers
MvRow(e, headers) ==
    [uuid |-> e.uuid, trace_id |-> e.trace_id, span_id |-> e.span_id,
     timestamp |-> e.timestamp, body |-> e.body,
     severity_text |-> e.severity_text, service_name |-> e.service_name,
     resource_attributes |-> e.resource_attributes,
     resource_id |-> e.resource_id, attributes |-> e.attributes,
     attributes_map_str |-> e.attributes_map_str,
     team_id |-> HeaderTeamId(headers)]

\* kafka_logs_avro_mv applied to one parsed message
MvRows(m) == [i \in 1..Len(m.entries) |-> MvRow(m.entries[i], m.headers)]

\* Logs22Row with time_bucket floored to the rollup's ten minutes
Logs22RowCoarseBucket(r, t) ==
    [uuid |-> r.uuid, trace_id |-> r.trace_id, span_id |-> r.span_id,
     timestamp |-> r.timestamp, body |-> r.body,
     severity_text |-> r.severity_text, service_name |-> r.service_name,
     resource_attributes |-> r.resource_attributes,
     resource_id |-> r.resource_id, attributes |-> r.attributes,
     attributes_map_str |-> r.attributes_map_str,
     team_id |-> r.team_id,
     time_bucket |-> toStartOfInterval(r.timestamp, TenMinuteSecs),
     created_at |-> t]

\* the row logs22 stores for an inserted row r at time t: the MATERIALIZED
\* columns time_bucket and created_at are computed by the table
Logs22Row(r, t) ==
    [uuid |-> r.uuid, trace_id |-> r.trace_id, span_id |-> r.span_id,
     timestamp |-> r.timestamp, body |-> r.body,
     severity_text |-> r.severity_text, service_name |-> r.service_name,
     resource_attributes |-> r.resource_attributes,
     resource_id |-> r.resource_id, attributes |-> r.attributes,
     attributes_map_str |-> r.attributes_map_str,
     team_id |-> r.team_id,
     time_bucket |-> toStartOfInterval(r.timestamp, MinuteSecs),
     created_at |-> t]

\* SortKey of an ORDER BY that does not begin with team_id
SortKeyNoTeam(r) ==
    <<0, r.time_bucket, r.service_name, r.resource_attributes,
      r.severity_text, r.timestamp, r.uuid, r.trace_id, r.span_id>>

\* ORDER BY of logs22
SortKey(r) ==
    <<r.team_id, r.time_bucket, r.service_name, r.resource_attributes,
      r.severity_text, r.timestamp, r.uuid, r.trace_id, r.span_id>>

\* PARTITION BY toDate(timestamp)
PartitionOf(r) == toDate(r.timestamp)

\* GROUP BY of projection_aggregate_counts
AggDims(r) ==
    <<r.team_id, r.time_bucket, toStartOfInterval(r.timestamp, MinuteSecs),
      r.service_name, r.severity_text, r.resource_attributes, r.resource_id>>

Range(s) == {s[i] : i \in 1..Len(s)}

RECURSIVE BagOfSeq(_)
BagOfSeq(s) ==
    IF s = <<>> THEN EmptyBag
    ELSE SetToBag({Head(s)}) (+) BagOfSeq(Tail(s))

RECURSIVE SeqOfSet(_)
SeqOfSet(S) ==
    IF S = {} THEN <<>>
    ELSE LET x == CHOOSE y \in S : TRUE IN <<x>> \o SeqOfSet(S \ {x})

\* projection_aggregate_counts of the rows of a part: one count per row
AggOfRows(S) ==
    LET s == SeqOfSet(S) IN BagOfSeq([i \in 1..Len(s) |-> AggDims(s[i])])

\* projection_trace_span of the rows of a part: one locator per row
TraceOfRows(S) ==
    LET s == SeqOfSet(S) IN BagOfSeq([i \in 1..Len(s) |-> SortKey(s[i])])

\* ReplacingMergeTree without a version column: of the rows of a sequence
\* that share the sorting key, the last one survives
ReplacingLast(rows) ==
    {rows[i] : i \in {j \in 1..Len(rows) :
                        \A k \in (j + 1)..Len(rows) :
                            SortKey(rows[k]) # SortKey(rows[j])}}

\* a data part written by one insert: its rows, and the two projection
\* parts computed from them
NewPart(rows) ==
    LET kept == ReplacingLast(rows) IN
    [rows  |-> kept,
     agg   |-> AggOfRows(kept),
     trace |-> TraceOfRows(kept)]

\* INSERT of a block into logs22 at time t: one new part per partition
\* touched
InsertBlock(store, rows, t) ==
    [d \in Days |->
        LET mine == SelectSeq(rows, LAMBDA r : PartitionOf(r) = d) IN
        IF mine = <<>> THEN store[d]
        ELSE Append(store[d],
                    NewPart([i \in 1..Len(mine) |-> Logs22Row(mine[i], t)]))]

\* MergeParts as a plain MergeTree would merge: no row is replaced
MergePartsKeepAll(older, newer, rebuiltTrace) ==
    [rows  |-> older.rows \cup newer.rows,
     agg   |-> older.agg (+) newer.agg,
     trace |-> older.trace (+) newer.trace]

\* MergeParts that keeps, of the rows of one sorting key, the older one
MergePartsKeepOlder(older, newer, rebuiltTrace) ==
    LET oldKeys == {SortKey(r) : r \in older.rows}
        kept    == older.rows \cup
                   {r \in newer.rows : SortKey(r) \notin oldKeys}
    IN  [rows  |-> kept,
         agg   |-> older.agg (+) newer.agg,
         trace |-> IF rebuiltTrace THEN TraceOfRows(kept)
                   ELSE older.trace (+) newer.trace]

\* a background merge of two adjacent parts of one partition (older, newer):
\* the rows collapse by sorting key and the newer row survives; with
\* deduplicate_merge_projection_mode = 'ignore' the projection parts are
\* merged as they are, not rebuilt from the surviving rows, so the counts of
\* projection_aggregate_counts add up.  Whether the merge carries both
\* locators of projection_trace_span or re-derives _part_offset from the
\* merged rows is not fixed by the schema: rebuiltTrace chooses.
MergeParts(older, newer, rebuiltTrace) ==
    LET newKeys == {SortKey(r) : r \in newer.rows}
        kept    == newer.rows \cup
                   {r \in older.rows : SortKey(r) \notin newKeys}
    IN  [rows  |-> kept,
         agg   |-> older.agg (+) newer.agg,
         trace |-> IF rebuiltTrace THEN TraceOfRows(kept)
                   ELSE older.trace (+) newer.trace]

(***************************************************************************)
(* log_to_log_attributes: the view from logs22 to log_attributes.          *)
(***************************************************************************)
EmptyStr == AStr("", 0, "invalid", "")

\* CAST(JSONExtract(v, 'Dynamic'), 'String')
JSONExtractString(v) ==
    CASE v.json = "string" -> v.inner
      [] v.json = "number" -> v.raw
      [] OTHER -> ""

\* RollupPairs with the key filter off by one: length(k) <= 256
RollupPairsKeyInclusive(r) ==
    {<<p[1], IF p[2].len > AttrLimit THEN EmptyStr ELSE p[2]>> :
        p \in {q \in r.attributes : q[1].len <= AttrLimit}}

\* RollupPairs with the value test off by one: length(v) >= 256
RollupPairsValueInclusive(r) ==
    {<<p[1], IF p[2].len >= AttrLimit THEN EmptyStr ELSE p[2]>> :
        p \in {q \in r.attributes : q[1].len < AttrLimit}}

\* arrayFilter((k, v) -> length(k) < 256, ...), then
\* arrayMap((k, v) -> (k, if(length(v) > 256, '', v)), ...)
RollupPairs(r) ==
    {<<p[1], IF p[2].len > AttrLimit THEN EmptyStr ELSE p[2]>> :
        p \in {q \in r.attributes : q[1].len < AttrLimit}}

\* RollupKeys of a view that selects no team_id: the column takes its
\* default
RollupKeysNoTeam(r) ==
    {<<0, toStartOfInterval(r.timestamp, TenMinuteSecs),
       r.service_name, p[1].raw, JSONExtractString(p[2])>> :
        p \in RollupPairs(r)}

\* the rows the view emits for one inserted row
RollupKeys(r) ==
    {<<r.team_id, toStartOfInterval(r.timestamp, TenMinuteSecs),
       r.service_name, p[1].raw, JSONExtractString(p[2])>> :
        p \in RollupPairs(r)}

RECURSIVE RollupOfBlock(_)
\* sumSimpleState(1) over the rows of one inserted block
RollupOfBlock(rows) ==
    IF rows = <<>> THEN EmptyBag
    ELSE SetToBag(RollupKeys(Head(rows))) (+) RollupOfBlock(Tail(rows))

\* PARTITION BY toDate(time_bucket) of log_attributes
RollupPartitionOf(k) == toDate(k[2])

\* the rows of a bag of rollup rows that fall in partition d
RollupRowsOfDay(b, d) ==
    [k \in {x \in DOMAIN b : RollupPartitionOf(x) = d} |-> b[k]]

\* InsertRollup of a view that counts a key once, when it first occurs
InsertRollupNewKeysOnly(rollup, rows) ==
    [d \in Days |->
        LET all  == RollupRowsOfDay(RollupOfBlock(rows), d)
            mine == [k \in {x \in DOMAIN all :
                               \A j \in 1..Len(rollup[d]) :
                                   x \notin DOMAIN rollup[d][j]} |-> 1]
        IN  IF DOMAIN mine = {} THEN rollup[d] ELSE Append(rollup[d], mine)]

\* INSERT of the rows the view emits for a block into log_attributes: one
\* new part per partition touched
InsertRollup(rollup, rows) ==
    [d \in Days |->
        LET mine == RollupRowsOfDay(RollupOfBlock(rows), d) IN
        IF DOMAIN mine = {} THEN rollup[d] ELSE Append(rollup[d], mine)]

\* MergeRollupParts as a ReplacingMergeTree would merge: of the rows of one
\* key the newer one survives
MergeRollupPartsReplacing(older, newer) ==
    [k \in DOMAIN older \cup DOMAIN newer |->
        IF k \in DOMAIN newer THEN newer[k] ELSE older[k]]

\* a background merge of two parts of log_attributes: AggregatingMergeTree
\* sums attribute_count (SimpleAggregateFunction(sum)) per sorting key
MergeRollupParts(older, newer) == older (+) newer

RECURSIVE SumOfParts(_)
SumOfParts(parts) ==
    IF parts = <<>> THEN EmptyBag ELSE Head(parts) (+) SumOfParts(Tail(parts))

RECURSIVE SumOfDays(_, _)
SumOfDays(rollup, D) ==
    IF D = {} THEN EmptyBag
    ELSE LET d == CHOOSE x \in D : TRUE
         IN  SumOfParts(rollup[d]) (+) SumOfDays(rollup, D \ {d})

\* sum(attribute_count) per key over the parts of log_attributes, as a
\* SELECT ... GROUP BY over the table reads it
RollupSum(rollup) == SumOfDays(rollup, Days)

(***************************************************************************)
(* The four read operations, over a store and a rollup table.  They are    *)
(* callers' queries: the schema fixes only what serves them (the two       *)
(* projections, log_attributes).                                           *)
(***************************************************************************)
PartIds(store) ==
    UNION {{<<d, i>> : i \in 1..Len(store[d])} : d \in Days}

PartAt(store, id) == store[id[1]][id[2]]

\* the rows a scan of the store reads (one set; a key may occur in several)
StoreRows(store) == UNION {PartAt(store, id).rows : id \in PartIds(store)}

RECURSIVE SumOver(_, _)
\* the sum of f[x] over the x of the domain of f that are in S
SumOver(S, f) ==
    IF S = {} THEN 0
    ELSE LET x == CHOOSE y \in S : TRUE IN f[x] + SumOver(S \ {x}, f)

\* the number of rows of the store with sorting key k
Copies(store, k) ==
    SumOver(PartIds(store),
            [id \in PartIds(store) |->
                Cardinality({r \in PartAt(store, id).rows : SortKey(r) = k})])

\* getByTrace(team_id, trace_id), served by projection_trace_span: in every
\* part the locators of the trace, each resolved to the row of the part it
\* points at, the rows of other tenants filtered out.  The result maps each
\* row returned to the number of times it is returned.
getByTrace(store, team, trace) ==
    LET hit(r) == r.trace_id = trace /\ r.team_id = team
        rows   == {r \in StoreRows(store) : hit(r)}
        times(r) ==
            SumOver(PartIds(store),
                    [id \in PartIds(store) |->
                        IF r \in PartAt(store, id).rows
                        THEN CopiesIn(SortKey(r), PartAt(store, id).trace)
                        ELSE 0])
    IN  [r \in rows |-> times(r)]

InRange(t, range) == range[1] <= t /\ t < range[2]

\* aggregateCounts(team_id, time_range) grouped by all the dimensions,
\* served by projection_aggregate_counts: dimension tuple -> count
aggregateCounts(store, team, range) ==
    LET dimsOf(id) == BagToSet(PartAt(store, id).agg)
        all  == UNION {dimsOf(id) : id \in PartIds(store)}
        mine == {g \in all : g[1] = team /\ InRange(g[3], range)}
    IN  [g \in mine |->
            SumOver(PartIds(store),
                    [id \in PartIds(store) |->
                        CopiesIn(g, PartAt(store, id).agg)])]

\* the same counts computed by a scan of the rows of the store
aggregateCountsByScan(store, team, range) ==
    LET rows == {r \in StoreRows(store) :
                    r.team_id = team /\
                    InRange(toStartOfInterval(r.timestamp, MinuteSecs), range)}
        mine == {AggDims(r) : r \in rows}
    IN  [g \in mine |->
            SumOver(PartIds(store),
                    [id \in PartIds(store) |->
                        Cardinality({r \in PartAt(store, id).rows :
                                        AggDims(r) = g})])]

\* listAttributes(team_id, time_range), served by log_attributes:
\* <<attribute_key, attribute_value>> -> summed attribute_count
listAttributes(rollup, team, range) ==
    LET sums == RollupSum(rollup)
        mine == {k \in BagToSet(sums) :
                    k[1] = team /\ InRange(k[2], range)}
        pairs == {<<k[4], k[5]>> : k \in mine}
    IN  [p \in pairs |->
            SumOver({k \in mine : <<k[4], k[5]>> = p},
                    [k \in mine |-> CopiesIn(k, sums)])]

\* position(body, sub) > 0
Contains(body, sub) ==
    \E i \in 0..(Len(body) - Len(sub)) :
        SubSeq(body, i + 1, i + Len(sub)) = sub

\* searchByText(team_id, time_range, substring): the rows whose body holds
\* the substring
searchByText(store, team, range, sub) ==
    {r \in StoreRows(store) :
        r.team_id = team /\ InRange(r.timestamp, range) /\
        Contains(r.body, sub)}

\* ngrambf_v1(3, ...): the size of the n-grams of idx_body_ngram
NgramSize == 3

\* ngrams(body, n): the substrings of n consecutive characters
ngrams(body, n) ==
    {SubSeq(body, i, i + n - 1) : i \in 1..(Len(body) - n + 1)}

\* idx_body_ngram built over n-grams of 4 characters
idx_body_ngram_of_4(rows, fp) ==
    UNION {ngrams(r.body, NgramSize + 1) : r \in rows} \cup fp

\* INDEX idx_body_ngram body TYPE ngrambf_v1(3, 20000, 4, 0) GRANULARITY 1
\* over the rows of one granule (a part of the model is one granule): the
\* n-grams for which the bloom filter answers "maybe", which are the
\* n-grams of every body of the granule and the filter's false positives fp
idx_body_ngram(rows, fp) ==
    UNION {ngrams(r.body, NgramSize) : r \in rows} \cup fp

\* the index lets the scan skip a granule when the filter answers "no" for
\* an n-gram of the substring; a substring shorter than the n-gram size
\* has no n-gram and skips nothing
MaySkip(filter, sub) == \E g \in ngrams(sub, NgramSize) : g \notin filter

\* searchByText with the granules the index excludes skipped, and every row
\* of the others checked against the substring
searchByTextIndexed(store, team, range, sub, fp) ==
    UNION {{r \in PartAt(store, id).rows :
               r.team_id = team /\ InRange(r.timestamp, range) /\
               Contains(r.body, sub)} :
           id \in {x \in PartIds(store) :
                     ~MaySkip(idx_body_ngram(PartAt(store, x).rows, fp),
                              sub)}}

(***************************************************************************)
(* State.                                                                  *)
(*   topic          the messages of the Kafka topic after the committed    *)
(*                  offset, in offset order (no consumer reads the ones    *)
(*                  before it again)                                       *)
(*   committed      the committed consumer offset (messages 1..committed)  *)
(*   pos            the consumer's read position, an offset too            *)
(*   block          the rows of the block being formed                     *)
(*   errs           messages skipped as broken in the block being formed   *)
(*   logs22         per partition (day), the parts in insertion order      *)
(*   log_attributes per partition (day), the parts in insertion order,     *)
(*                  each part: key -> summed attribute_count               *)
(*   now            the clock that now() reads, ticking with every insert  *)
(*   reads          messages read so far                                   *)
(* and, as a record of what has happened,                                  *)
(*   acked          the rows kafka_logs_avro_mv selects from the messages  *)
(*                  at or before the committed offset, less the rows of    *)
(*                  partitions dropped since                               *)
(*   inserted       the rows ever inserted into logs22                     *)
(*   brokenRun      the number of consecutive broken messages that end at  *)
(*                  the committed offset                                   *)
(*   last           the consumer's last step: its kind, and the broken     *)
(*                  messages and rows of the block it handled              *)
(***************************************************************************)
Step(ev, skipped, rows) == [ev |-> ev, skipped |-> skipped, rows |-> rows]

Init ==
    /\ topic = <<>>
    /\ committed = 0
    /\ pos = 0
    /\ block = <<>>
    /\ errs = 0
    /\ logs22 = [d \in Days |-> <<>>]
    /\ log_attributes = [d \in Days |-> <<>>]
    /\ now = 1
    /\ reads = 0
    /\ acked = {}
    /\ inserted = {}
    /\ brokenRun = 0
    /\ last = Step("init", 0, 0)

\* the next message the consumer reads: the one at its position, or a new
\* one a producer appends to the topic
NextMessages ==
    IF pos - committed < Len(topic) THEN {topic[pos - committed + 1]}
    ELSE Messages

TopicWith(m) ==
    IF pos - committed < Len(topic) THEN topic ELSE Append(topic, m)

\* the messages read into the block being formed
ReadMessages == SubSeq(topic, 1, pos - committed)

\* the rows kafka_logs_avro_mv selects from the parsable ones of a sequence
\* of messages
RowsOfMessages(ms) ==
    UNION {Range(MvRows(ms[i])) : i \in {j \in 1..Len(ms) : ~Broken(ms[j])}}

RECURSIVE TrailingBroken(_)
\* the number of consecutive broken messages at the end of a sequence
TrailingBroken(ms) ==
    IF ms = <<>> \/ ~Broken(ms[Len(ms)]) THEN 0
    ELSE 1 + TrailingBroken(SubSeq(ms, 1, Len(ms) - 1))

\* the run of consecutive broken messages that ends with the last of the
\* messages ms read after the committed offset
RunEndingAt(ms) ==
    IF TrailingBroken(ms) = Len(ms) THEN brokenRun + Len(ms)
    ELSE TrailingBroken(ms)

\* the consumer reads one parsable message into the block
ConsumeMessage ==
    /\ reads < MaxReads
    /\ Len(block) < kafka_max_block_size
    /\ \E m \in NextMessages :
        /\ ~Broken(m)
        /\ topic' = TopicWith(m)
        /\ block' = block \o MvRows(m)
    /\ pos' = pos + 1
    /\ reads' = reads + 1
    /\ last' = Step("consume", errs, Len(block'))
    /\ UNCHANGED <<committed, errs, logs22, log_attributes, now, acked,
                   inserted, brokenRun>>

\* SkipBrokenMessage of a reader that keeps what it can decode of a broken
\* message
SkipKeepingDecodable ==
    /\ reads < MaxReads
    /\ Len(block) < kafka_max_block_size
    /\ errs < kafka_skip_broken_messages
    /\ \E m \in NextMessages :
        /\ Broken(m)
        /\ topic' = TopicWith(m)
        /\ block' = block \o
              MvRows([m EXCEPT !.entries =
                         SelectSeq(m.entries, LAMBDA e : Decodable(e))])
    /\ pos' = pos + 1
    /\ errs' = errs + 1
    /\ reads' = reads + 1
    /\ last' = Step("skip", errs + 1, Len(block))
    /\ UNCHANGED <<committed, logs22, log_attributes, now, acked,
                   inserted, brokenRun>>

\* the consumer reads a broken message and the block tolerates it: the
\* message is skipped as a whole
SkipBrokenMessage ==
    /\ reads < MaxReads
    /\ Len(block) < kafka_max_block_size
    /\ errs < kafka_skip_broken_messages
    /\ \E m \in NextMessages :
        /\ Broken(m)
        /\ topic' = TopicWith(m)
    /\ pos' = pos + 1
    /\ errs' = errs + 1
    /\ reads' = reads + 1
    /\ last' = Step("skip", errs + 1, Len(block))
    /\ UNCHANGED <<committed, block, logs22, log_attributes, now, acked,
                   inserted,
                   brokenRun>>

\* StallOnBrokenMessage with the comparison off by one: the block fails on
\* the broken message that reaches the tolerance
StallOffByOne ==
    /\ reads < MaxReads
    /\ Len(block) < kafka_max_block_size
    /\ errs + 1 >= kafka_skip_broken_messages
    /\ \E m \in NextMessages :
        /\ Broken(m)
        /\ topic' = TopicWith(m)
    /\ pos' = committed
    /\ block' = <<>>
    /\ errs' = 0
    /\ reads' = reads + 1
    /\ last' = Step("stall", errs + 1, Len(block))
    /\ UNCHANGED <<committed, logs22, log_attributes, now, acked, inserted,
                   brokenRun>>

\* StallOnBrokenMessage of a consumer that writes the rows it has before
\* it fails
StallAfterPartialInsert ==
    /\ reads < MaxReads
    /\ Len(block) < kafka_max_block_size
    /\ errs >= kafka_skip_broken_messages
    /\ \E m \in NextMessages :
        /\ Broken(m)
        /\ topic' = TopicWith(m)
    /\ logs22' = InsertBlock(logs22, block, now)
    /\ now' = IF block = <<>> THEN now ELSE now + 1
    /\ inserted' = inserted \cup Range(block)
    /\ pos' = committed
    /\ block' = <<>>
    /\ errs' = 0
    /\ reads' = reads + 1
    /\ last' = Step("stall", errs + 1, Len(block))
    /\ UNCHANGED <<committed, log_attributes, acked, brokenRun>>

\* the consumer reads one broken message more than the block tolerates: the
\* block is thrown away, nothing is committed, and the consumer starts
\* again from the committed offset
StallOnBrokenMessage ==
    /\ reads < MaxReads
    /\ Len(block) < kafka_max_block_size
    /\ errs >= kafka_skip_broken_messages
    /\ \E m \in NextMessages :
        /\ Broken(m)
        /\ topic' = TopicWith(m)
    /\ pos' = committed
    /\ block' = <<>>
    /\ errs' = 0
    /\ reads' = reads + 1
    /\ last' = Step("stall", errs + 1, Len(block))
    /\ UNCHANGED <<committed, logs22, log_attributes, now, acked, inserted,
                   brokenRun>>

\* the block is complete (kafka_max_block_size rows, or the flush interval
\* has passed): it is inserted into logs22, log_to_log_attributes adds its
\* rollup rows, and the offsets are committed
FlushBlock ==
    /\ pos > committed
    /\ logs22' = InsertBlock(logs22, block, now)
    /\ now' = IF block = <<>> THEN now ELSE now + 1
    /\ log_attributes' = InsertRollup(log_attributes, block)
    /\ committed' = pos
    /\ topic' = SubSeq(topic, pos - committed + 1, Len(topic))
    /\ block' = <<>>
    /\ errs' = 0
    /\ acked' = acked \cup RowsOfMessages(ReadMessages)
    /\ inserted' = inserted \cup Range(block)
    /\ brokenRun' = RunEndingAt(ReadMessages)
    /\ last' = Step("flush", errs, Len(block))
    /\ UNCHANGED <<pos, reads>>

\* FlushRollupFails of a pipeline that swallows the failure of the view:
\* the offsets are committed all the same
FlushRollupFailureSwallowed ==
    /\ pos > committed
    /\ RollupOfBlock(block) # EmptyBag
    /\ logs22' = InsertBlock(logs22, block, now)
    /\ now' = IF block = <<>> THEN now ELSE now + 1
    /\ committed' = pos
    /\ topic' = SubSeq(topic, pos - committed + 1, Len(topic))
    /\ block' = <<>>
    /\ errs' = 0
    /\ acked' = acked \cup RowsOfMessages(ReadMessages)
    /\ inserted' = inserted \cup Range(block)
    /\ brokenRun' = RunEndingAt(ReadMessages)
    /\ last' = Step("rollup_fail", errs, Len(block))
    /\ UNCHANGED <<pos, log_attributes, reads>>

\* the same, but the write of log_to_log_attributes fails after the part of
\* logs22 is written: the exception reaches the consumer, which does not
\* commit and starts again from the committed offset
FlushRollupFails ==
    /\ pos > committed
    /\ RollupOfBlock(block) # EmptyBag
    /\ logs22' = InsertBlock(logs22, block, now)
    /\ now' = IF block = <<>> THEN now ELSE now + 1
    /\ pos' = committed
    /\ block' = <<>>
    /\ errs' = 0
    /\ inserted' = inserted \cup Range(block)
    /\ last' = Step("rollup_fail", errs, Len(block))
    /\ UNCHANGED <<topic, committed, log_attributes, reads, acked, brokenRun>>

\* FlushThenCrash with the commit moved before the writes: the consumer
\* commits, then crashes before it inserts
CommitThenCrash ==
    /\ pos > committed
    /\ committed' = pos
    /\ topic' = SubSeq(topic, pos - committed + 1, Len(topic))
    /\ block' = <<>>
    /\ errs' = 0
    /\ acked' = acked \cup RowsOfMessages(ReadMessages)
    /\ brokenRun' = RunEndingAt(ReadMessages)
    /\ last' = Step("crash", errs, Len(block))
    /\ UNCHANGED <<pos, logs22, log_attributes, now, reads, inserted>>

\* the same, but the consumer crashes after both writes and before the
\* commit, and restarts from the committed offset
FlushThenCrash ==
    /\ pos > committed
    /\ logs22' = InsertBlock(logs22, block, now)
    /\ now' = IF block = <<>> THEN now ELSE now + 1
    /\ log_attributes' = InsertRollup(log_attributes, block)
    /\ pos' = committed
    /\ block' = <<>>
    /\ errs' = 0
    /\ inserted' = inserted \cup Range(block)
    /\ last' = Step("crash", errs, Len(block))
    /\ UNCHANGED <<topic, committed, reads, acked, brokenRun>>

\* FlushPartialFails of a consumer that commits although the insert failed
FlushPartialFailsCommits ==
    /\ pos > committed
    /\ \E W \in SUBSET {PartitionOf(r) : r \in Range(block)} :
        /\ W # {PartitionOf(r) : r \in Range(block)}
        /\ logs22' = InsertBlock(logs22,
                          SelectSeq(block, LAMBDA r : PartitionOf(r) \in W),
                          now)
        /\ now' = IF W = {} THEN now ELSE now + 1
        /\ inserted' = inserted \cup
                          {r \in Range(block) : PartitionOf(r) \in W}
    /\ committed' = pos
    /\ topic' = SubSeq(topic, pos - committed + 1, Len(topic))
    /\ block' = <<>>
    /\ errs' = 0
    /\ acked' = acked \cup RowsOfMessages(ReadMessages)
    /\ brokenRun' = RunEndingAt(ReadMessages)
    /\ last' = Step("partial_fail", errs, Len(block))
    /\ UNCHANGED <<pos, log_attributes, reads>>

\* the insert of the block into logs22 fails part-way: an insert writes one
\* part per partition, the parts of the partitions W are written and the
\* write of another one fails.  The exception reaches the consumer before
\* log_to_log_attributes has run; nothing is committed and the consumer
\* starts again from the committed offset
FlushPartialFails ==
    /\ pos > committed
    /\ \E W \in SUBSET {PartitionOf(r) : r \in Range(block)} :
        /\ W # {PartitionOf(r) : r \in Range(block)}
        /\ logs22' = InsertBlock(logs22,
                          SelectSeq(block, LAMBDA r : PartitionOf(r) \in W),
                          now)
        /\ now' = IF W = {} THEN now ELSE now + 1
        /\ inserted' = inserted \cup
                          {r \in Range(block) : PartitionOf(r) \in W}
    /\ pos' = committed
    /\ block' = <<>>
    /\ errs' = 0
    /\ last' = Step("partial_fail", errs, Len(block))
    /\ UNCHANGED <<topic, committed, log_attributes, reads, acked, brokenRun>>

ReplaceTwo(parts, i, p) ==
    SubSeq(parts, 1, i - 1) \o <<p>> \o SubSeq(parts, i + 2, Len(parts))

\* a background merge of two adjacent parts of one partition of logs22
Merge ==
    /\ \E d \in Days : \E i \in 1..(Len(logs22[d]) - 1) :
       \E rebuiltTrace \in BOOLEAN :
          logs22' = [logs22 EXCEPT ![d] =
              ReplaceTwo(logs22[d], i,
                  MergeParts(logs22[d][i], logs22[d][i + 1], rebuiltTrace))]
    /\ UNCHANGED <<topic, committed, pos, block, errs, log_attributes, now,
                   reads, acked, inserted, brokenRun, last>>

\* a background merge of two adjacent parts of one partition of
\* log_attributes
MergeRollup ==
    /\ \E d \in Days : \E i \in 1..(Len(log_attributes[d]) - 1) :
          log_attributes' = [log_attributes EXCEPT ![d] =
              ReplaceTwo(log_attributes[d], i,
                  MergeRollupParts(log_attributes[d][i],
                                   log_attributes[d][i + 1]))]
    /\ UNCHANGED <<topic, committed, pos, block, errs, logs22, now,
                   reads, acked, inserted, brokenRun, last>>

\* DropPartition of a retention that drops the rollup of the day with the
\* rows of the day
DropPartitionCascade ==
    /\ \E d \in Days :
        /\ logs22[d] # <<>>
        /\ logs22' = [logs22 EXCEPT ![d] = <<>>]
        /\ log_attributes' = [log_attributes EXCEPT ![d] = <<>>]
        /\ acked' = {r \in acked : PartitionOf(r) # d}
    /\ UNCHANGED <<topic, committed, pos, block, errs, now,
                   reads, inserted, brokenRun, last>>

\* ALTER TABLE logs22 DROP PARTITION d
DropPartition ==
    /\ \E d \in Days :
        /\ logs22[d] # <<>>
        /\ logs22' = [logs22 EXCEPT ![d] = <<>>]
        /\ acked' = {r \in acked : PartitionOf(r) # d}
    /\ UNCHANGED <<topic, committed, pos, block, errs, log_attributes, now,
                   reads, inserted, brokenRun, last>>

\* ALTER TABLE log_attributes DROP PARTITION d
DropRollupPartition ==
    /\ \E d \in Days :
        /\ log_attributes[d] # <<>>
        /\ log_attributes' = [log_attributes EXCEPT ![d] = <<>>]
    /\ UNCHANGED <<topic, committed, pos, block, errs, logs22, now,
                   reads, acked, inserted, brokenRun, last>>

Next ==
    \/ ConsumeMessage
    \/ SkipBrokenMessage
    \/ StallOnBrokenMessage
    \/ FlushBlock
    \/ FlushRollupFails
    \/ FlushThenCrash
    \/ FlushPartialFails
    \/ Merge
    \/ MergeRollup
    \/ DropPartition
    \/ DropRollupPartition

Spec == Init /\ [][Next]_vars

\* background merges are scheduled for as long as parts remain to merge
LiveSpec == Init /\ [][Next]_vars /\ WF_vars(Merge)

(***************************************************************************)
(* Vocabulary of the properties.                                           *)
(***************************************************************************)
Teams == {0, 1, 2}

Traces == {"T1"}

\* the rows kafka_logs_avro_mv can select from the messages
AllRows == UNION {Range(MvRows(m)) : m \in {x \in Messages : ~Broken(x)}}

\* the sorting key logs22 gives an inserted row
KeyOf(r) == SortKey(Logs22Row(r, 0))

AllKeys == {KeyOf(r) : r \in AllRows}

Ranges == {<<0, 2 * DaySecs>>, <<0, DaySecs>>, <<DaySecs, 2 * DaySecs>>}

CountBroken(ms) == Cardinality({i \in 1..Len(ms) : Broken(ms[i])})

\* every partition of logs22 is merged into one part
FullyMerged == \A d \in Days : Len(logs22[d]) <= 1

\* a part into which a merge has collapsed rows of one sorting key
Collapsed(p) == BagCardinality(p.agg) > Cardinality(p.rows)

\* the tenant the team_id header of a message names, 0 when it names none
ExpectedTeam(m) == IF m.sender.kind = "tenant" THEN m.sender.team ELSE 0

RECURSIVE ExpectedTeams(_)
\* per row of the parsable messages of ms, the team of its message
ExpectedTeams(ms) ==
    IF ms = <<>> THEN <<>>
    ELSE (IF Broken(Head(ms)) THEN <<>>
          ELSE [i \in 1..Len(Head(ms).entries) |-> ExpectedTeam(Head(ms))])
         \o ExpectedTeams(Tail(ms))

C9_TeamIdFromHeader ==
    /\ [i \in 1..Len(block) |-> block[i].team_id] = ExpectedTeams(ReadMessages)
    /\ \A r \in StoreRows(logs22) :
          /\ r.team_id \in Teams
          /\ \E m \in {x \in Messages : ~Broken(x)} :
             \E i \in 1..Len(m.entries) :
                /\ m.entries[i].uuid = r.uuid
                /\ r.team_id = ExpectedTeam(m)
    /\ \A r \in acked :
          r.team_id = 0 => \E q \in inserted : q = r

\* rows of messages without a usable team_id header are stored under team 0
C9_Witness ==
    /\ last.ev = "flush"
    /\ \E r \in StoreRows(logs22) : r.team_id = 0
    /\ \E r \in StoreRows(logs22) : r.team_id = 2

(***************************************************************************)
(* C10.  Every row of logs22 has time_bucket = timestamp floored to the    *)
(* minute, whatever the payload carried, after redeliveries and merges.    *)
(***************************************************************************)
C10_BucketDeterminism ==
    \A r \in StoreRows(logs22) :
        /\ r.time_bucket % MinuteSecs = 0
        /\ r.time_bucket <= r.timestamp
        /\ r.timestamp < r.time_bucket + MinuteSecs

\* a merge has collapsed redelivered rows whose timestamp is not on a
\* minute boundary
C10_Witness ==
    \E id \in PartIds(logs22) :
        /\ Collapsed(PartAt(logs22, id))
        /\ \E r \in PartAt(logs22, id).rows : r.timestamp # r.time_bucket

\* the partition the rows of sorting key k are stored in
KeyDay(k) == toDate(k[6])

\* the substrings searched for
Subs == {<<>>, <<"o">>, <<"r", "r">>}

(***************************************************************************)
(* C1.  Eventual convergence of logs22 to one row per sorting key.  Under  *)
(* a fair merge schedule a key held in several copies is eventually held   *)
(* in at most one; no step other than a drop of its partition takes the    *)
(* last copy of a key away; and a key held in exactly one copy stays so    *)
(* until a message carrying it is delivered again or its partition is      *)
(* dropped.                                                                *)
(***************************************************************************)
C1_MergeConverges ==
    /\ \A k \in AllKeys :
          (Copies(logs22, k) >= 2) ~> (Copies(logs22, k) <= 1)
    /\ [][\A k \in AllKeys :
            /\ (Copies(logs22, k) >= 1 /\ Copies(logs22', k) = 0)
                  => logs22'[KeyDay(k)] = <<>>
            /\ (Copies(logs22, k) = 1 /\ Copies(logs22', k) > 1)
                  => \E r \in Range(block) : KeyOf(r) = k]_vars

\* every partition is merged into one part, in which rows delivered more
\* than once have been collapsed, and no key is held twice
C1_Witness ==
    /\ FullyMerged
    /\ \E id \in PartIds(logs22) : Collapsed(PartAt(logs22, id))
    /\ \A k \in AllKeys : Copies(logs22, k) <= 1
    /\ \E k \in AllKeys : Copies(logs22, k) = 1

(***************************************************************************)
(* C2.  Duplicate deliveries are invisible once merging is complete: with  *)
(* every partition merged into one part, getByTrace returns each row once  *)
(* and aggregateCounts returns, for every tenant and range, the counts of  *)
(* the rows the table holds (what a single delivery gives).                *)
(***************************************************************************)
C2_DuplicatesInvisibleAfterMerge ==
    FullyMerged =>
        \A team \in Teams :
            /\ \A range \in Ranges :
                  aggregateCounts(logs22, team, range)
                      = aggregateCountsByScan(logs22, team, range)
            /\ \A trace \in Traces :
               \A r \in DOMAIN getByTrace(logs22, team, trace) :
                  getByTrace(logs22, team, trace)[r] = 1

(***************************************************************************)
(* C3.  Tenant isolation.  For every tenant t, every row getByTrace and    *)
(* searchByText return has team_id = t and was inserted for t; every group *)
(* of aggregateCounts has team_id = t and is the group of a row inserted   *)
(* for t; every pair of listAttributes is an attribute of a row inserted   *)
(* for t.  A tenant for which nothing was inserted gets empty results.     *)
(***************************************************************************)
C3_TenantIsolation ==
    \A team \in Teams :
        LET mine == {r \in inserted : r.team_id = team} IN
        /\ \A trace \in Traces :
           \A r \in DOMAIN getByTrace(logs22, team, trace) :
              /\ r.team_id = team
              /\ \E q \in mine : KeyOf(q) = SortKey(r)
        /\ \A range \in Ranges :
           \A g \in DOMAIN aggregateCounts(logs22, team, range) :
              /\ g[1] = team
              /\ \E q \in mine : AggDims(Logs22Row(q, 0)) = g
        /\ \A range \in Ranges :
           \A p \in DOMAIN listAttributes(log_attributes, team, range) :
              \E q \in mine : \E k \in RollupKeys(q) : <<k[4], k[5]>> = p
        /\ \A range \in Ranges : \A sub \in Subs :
           \A r \in searchByText(logs22, team, range, sub) :
              /\ r.team_id = team
              /\ \E q \in mine : KeyOf(q) = SortKey(r)

\* tenants 1 and 2 both hold a row of the same trace, the rollup holds
\* attributes, and nothing was ever inserted for team 0
C3_Witness ==
    /\ \E r1, r2 \in StoreRows(logs22) :
          /\ r1.team_id = 1
          /\ r2.team_id = 2
          /\ r1.trace_id = r2.trace_id
    /\ RollupSum(log_attributes) # EmptyBag
    /\ \A r \in inserted : r.team_id # 0

C6_RunPastThresholdStalls ==
    [][SkipBrokenMessage =>
          (RunEndingAt(ReadMessages))' <= kafka_skip_broken_messages]_vars

(***************************************************************************)
(* C6, amended.  The malformed messages are counted per block.  The block  *)
(* in which one more than kafka_skip_broken_messages malformed messages    *)
(* are read fails as a whole: it writes no row to logs22 or to the rollup, *)
(* commits nothing, and the consumer starts again from the committed       *)
(* offset; a block never tolerates more than the threshold.                *)
(***************************************************************************)
C6_BlockPastThresholdFails ==
    /\ [](errs <= kafka_skip_broken_messages)
    /\ [][StallOnBrokenMessage =>
            /\ CountBroken(ReadMessages) = kafka_skip_broken_messages
            /\ logs22' = logs22
            /\ log_attributes' = log_attributes
            /\ inserted' = inserted
            /\ committed' = committed
            /\ acked' = acked
            /\ pos' = committed
            /\ block' = <<>>]_vars

\* a block that held rows of parsable messages has just failed on a
\* malformed message, and nothing was ever written
C6_Witness ==
    /\ last.ev = "stall"
    /\ last.rows > 0
    /\ inserted = {}
    /\ pos = committed
    /\ Len(topic) > kafka_skip_broken_messages

(***************************************************************************)
(* C7 as stated.  The count is per run of consecutive malformed messages:  *)
(* the consumer fails only on a message that makes a run of consecutive    *)
(* malformed messages longer than the threshold.                           *)
(***************************************************************************)
C7_OnlyLongRunsStall ==
    [][StallOnBrokenMessage =>
          RunEndingAt(ReadMessages) + 1 > kafka_skip_broken_messages]_vars

(***************************************************************************)
(* C7, amended.  A block with at most kafka_skip_broken_messages malformed *)
(* messages never fails on them: each is skipped and counted, and the rows *)
(* of the parsable messages are persisted.  The count is per block, not    *)
(* per run: it is the number of malformed messages read into the block,    *)
(* consecutive or not, and the block fails only when it has reached the    *)
(* threshold and reads one more.                                           *)
(***************************************************************************)
C7_BlockWithinThresholdNeverFails ==
    /\ [](errs = CountBroken(ReadMessages))
    /\ [][StallOnBrokenMessage =>
            CountBroken(ReadMessages) >= kafka_skip_broken_messages]_vars
    /\ [][(FlushBlock /\ errs <= kafka_skip_broken_messages) =>
            /\ \A r \in RowsOfMessages(ReadMessages) :
                  Copies(logs22', KeyOf(r)) >= 1
            /\ committed' = pos]_vars

\* a block with as many malformed messages as the threshold allows was
\* written and committed with the rows of its parsable messages
C7_Witness ==
    /\ last.ev = "flush"
    /\ last.skipped = kafka_skip_broken_messages
    /\ last.rows > 0
    /\ acked # {}
    /\ pos = committed

(***************************************************************************)
(* C8 as stated.  In a block that mixes decodable and undecodable entries, *)
(* every decodable entry is persisted: exactly the undecodable entries are *)
(* dropped.                                                                *)
(***************************************************************************)
C8_EveryDecodableEntryPersisted ==
    [][FlushBlock =>
          \A i \in 1..Len(ReadMessages) :
          \A j \in 1..Len(ReadMessages[i].entries) :
             Decodable(ReadMessages[i].entries[j]) =>
                Copies(logs22',
                       KeyOf(MvRow(ReadMessages[i].entries[j],
                                   ReadMessages[i].headers))) >= 1]_vars

(***************************************************************************)
(* C8, amended.  A message that cannot be decoded is skipped as a whole,   *)
(* with whatever decodable entries it holds, and counted; the block is not *)
(* aborted: every entry of every parsable message of the block is          *)
(* persisted, nothing of a skipped message is, and the block is committed. *)
(***************************************************************************)
C8_ParsableMessagesPersisted ==
    [][FlushBlock =>
          /\ Range(block) = RowsOfMessages(ReadMessages)
          /\ \A r \in RowsOfMessages(ReadMessages) :
                Copies(logs22', KeyOf(r)) >= 1
          /\ inserted' = inserted \cup RowsOfMessages(ReadMessages)
          /\ errs = CountBroken(ReadMessages)
          /\ committed' = pos]_vars

\* a block that skipped a message holding a decodable entry next to an
\* undecodable one was written: the decodable entry of the skipped message
\* (a row of tenant 1 from entry u2) is nowhere
C8_Witness ==
    /\ last.ev = "flush"
    /\ last.skipped >= 1
    /\ last.rows >= 1
    /\ inserted # {}
    /\ \A r \in inserted : ~(r.uuid = "u2" /\ r.team_id = 1)

\* the attribute keys and values of the rows the messages can carry
AttrKeys == UNION {{p[1] : p \in r.attributes} : r \in AllRows}

AttrValues == UNION {{p[2] : p \in r.attributes} : r \in AllRows}

\* the length of the attribute key stored as raw
LenOfKey(raw) == (CHOOSE a \in AttrKeys : a.raw = raw).len

\* the summed attribute_count of the rollup rows of row r's team, ten
\* minutes and service under attribute key raw: with value v, and with any
\* value
CountOf(rollup, r, raw, v) ==
    CopiesIn(<<r.team_id, toStartOfInterval(r.timestamp, TenMinuteSecs),
               r.service_name, raw, v>>, RollupSum(rollup))

CountOfKey(rollup, r, raw) ==
    LET sums == RollupSum(rollup)
        mine == {k \in BagToSet(sums) :
                    /\ k[1] = r.team_id
                    /\ k[2] = toStartOfInterval(r.timestamp, TenMinuteSecs)
                    /\ k[3] = r.service_name
                    /\ k[4] = raw}
    IN  SumOver(mine, [k \in mine |-> CopiesIn(k, sums)])

\* a step in which the view log_to_log_attributes writes the rollup rows of
\* the block
RollupWritten == FlushBlock \/ FlushThenCrash

C12_ValuesFrom256Blanked ==
    [][RollupWritten =>
          \A i \in 1..Len(block) : \A p \in block[i].attributes :
             p[1].len < AttrLimit =>
                LET v == IF p[2].len >= AttrLimit THEN ""
                         ELSE JSONExtractString(p[2])
                IN  CountOf(log_attributes', block[i], p[1].raw, v)
                       >= CountOf(log_attributes, block[i], p[1].raw, v) + 1]_vars

(***************************************************************************)
(* C12, amended.  Every attribute value longer than 256 characters is      *)
(* recorded in the rollup as the empty string, never as its text; a value  *)
(* of 256 characters or fewer is recorded as what JSONExtract reads from   *)
(* it (a JSON string without its quotes, a number as written).             *)
(***************************************************************************)
C12_ValuesOver256Blanked ==
    /\ [](\A k \in BagToSet(RollupSum(log_attributes)) :
          \A a \in AttrValues :
             a.len > AttrLimit => k[5] \notin {a.raw, a.inner})
    /\ [][RollupWritten =>
            \A i \in 1..Len(block) : \A p \in block[i].attributes :
               p[1].len < AttrLimit =>
                  LET v == IF p[2].len > AttrLimit THEN ""
                           ELSE JSONExtractString(p[2])
                  IN  CountOf(log_attributes', block[i], p[1].raw, v)
                         >= CountOf(log_attributes, block[i], p[1].raw, v) + 1]_vars

\* the rollup holds the value of exactly 256 characters as read by
\* JSONExtract, and an empty value for the one of 257
C12_Witness ==
    /\ last.ev = "flush"
    /\ \E k \in BagToSet(RollupSum(log_attributes)) :
          k[4] = Key255.raw /\ k[5] = Val256.inner
    /\ \E k \in BagToSet(RollupSum(log_attributes)) :
          k[4] = EnvKey.raw /\ k[5] = ""

\* the substrings searched for: shorter than an n-gram, one n-gram, longer,
\* and one that no body holds
Patterns ==
    {<<"o", "k">>, <<"r", "r">>, <<"e", "r", "r">>,
     <<"r", "r", "o", "r">>, <<"r", "o", "k">>}

\* the false positives the bloom filter of a granule can give
FalsePositives == {{}, {<<"r", "o", "k">>}, {<<"e", "r", "r">>}}

C14_ProjectionsInSync ==
    /\ \A id \in PartIds(logs22) :
          /\ PartAt(logs22, id).agg = AggOfRows(PartAt(logs22, id).rows)
          /\ PartAt(logs22, id).trace = TraceOfRows(PartAt(logs22, id).rows)
    /\ \A team \in Teams :
          aggregateCounts(logs22, team, <<0, 2 * DaySecs>>)
              = aggregateCountsByScan(logs22, team, <<0, 2 * DaySecs>>)

RECURSIVE CollapseRows(_)
\* the rows a sequence of parts comes down to when all of it is merged: per
\* sorting key, the row of the newest part that holds the key
CollapseRows(parts) ==
    IF parts = <<>> THEN {}
    ELSE LET newer   == parts[Len(parts)].rows
             newKeys == {SortKey(r) : r \in newer}
         IN  newer \cup
             {r \in CollapseRows(SubSeq(parts, 1, Len(parts) - 1)) :
                 SortKey(r) \notin newKeys}

(***************************************************************************)
(* C15.  Merging is deterministic and idempotent on the rows of logs22: a  *)
(* merge step never changes what the partition comes down to when fully    *)
(* merged (per key, the row inserted last), whichever parts it takes and    *)
(* in whichever order the steps come; and a part holds one row per key, so  *)
(* collapsing it again changes nothing.                                     *)
(***************************************************************************)
C15_MergeDeterministicIdempotent ==
    /\ [][Merge =>
            \A d \in Days :
                CollapseRows(logs22'[d]) = CollapseRows(logs22[d])]_vars
    /\ [](\A id \in PartIds(logs22) :
             /\ ReplacingLast(SeqOfSet(PartAt(logs22, id).rows))
                   = PartAt(logs22, id).rows
             /\ CollapseRows(<<PartAt(logs22, id), PartAt(logs22, id)>>)
                   = PartAt(logs22, id).rows)

\* a partition is merged into one part in which rows of one key have been
\* collapsed, and a row inserted after the first insert survives
C15_Witness ==
    \E d \in Days :
        /\ Len(logs22[d]) = 1
        /\ Collapsed(logs22[d][1])
        /\ \E r \in logs22[d][1].rows : r.created_at >= 2

\* the batch of one message has been written, not committed, delivered
\* again, written again and committed: one message was read twice, and
\* both logs22 and the rollup were written twice (the first attempt crashed
\* after its writes)
BatchReplayed ==
    /\ last.ev = "flush"
    /\ committed = 1
    /\ pos = 1
    /\ reads = 2
    /\ now = 3
    /\ \E k \in BagToSet(RollupSum(log_attributes)) :
          CopiesIn(k, RollupSum(log_attributes)) = 2

\* the number of rows getByTrace returns under sorting key k
ReturnedUnder(store, team, trace, k) ==
    LET res  == getByTrace(store, team, trace)
        mine == {r \in DOMAIN res : SortKey(r) = k}
    IN  SumOver(mine, [r \in mine |-> res[r]])

C17_RetentionPerPartitionPerTable ==
    /\ [][DropPartition =>
            /\ log_attributes' = log_attributes
            /\ \E d \in Days :
                /\ logs22[d] # <<>>
                /\ \A e \in Days \ {d} : logs22'[e] = logs22[e]
                /\ StoreRows(logs22') =
                      {r \in StoreRows(logs22) : toDate(r.timestamp) # d}]_vars
    /\ [][DropRollupPartition =>
            /\ logs22' = logs22
            /\ \E d \in Days :
                /\ log_attributes[d] # <<>>
                /\ \A e \in Days \ {d} :
                      log_attributes'[e] = log_attributes[e]
                /\ RollupSum(log_attributes') =
                      RollupRowsOfDay(RollupSum(log_attributes),
                                      CHOOSE e \in Days \ {d} : TRUE)]_vars

\* the rows of day 0 are dropped and their rollup rows are still there; the
\* rollup rows of day 1 are dropped and the rows of day 1 are still there
C17_Witness ==
    /\ logs22[0] = <<>>
    /\ log_attributes[0] # <<>>
    /\ log_attributes[1] = <<>>
    /\ \E r \in acked : PartitionOf(r) = 1 /\ Copies(logs22, KeyOf(r)) >= 1

\* the rollup keys the view can emit
AllRollupKeys == UNION {RollupKeys(r) : r \in AllRows}

\* the rows of a block that have an attribute pair mapping to rollup key k
Occurrences(rows, k) ==
    Cardinality({i \in 1..Len(rows) : k \in RollupKeys(rows[i])})

\* a step in which the whole block is written to logs22
PrimaryWritten == FlushBlock \/ FlushThenCrash \/ FlushRollupFails

C20_PartialFailureWithholdsCommit ==
    /\ [][(FlushPartialFails \/ FlushRollupFails) =>
            /\ committed' = committed
            /\ acked' = acked
            /\ pos' = committed
            /\ topic' = topic
            /\ log_attributes' = log_attributes
            /\ NextMessages' = {topic[1]}
            /\ Range(block) \subseteq RowsOfMessages(topic)]_vars
    /\ [](\A d \in Days :
             Len(logs22[d]) <= 1 =>
                \A k \in AllKeys :
                    KeyDay(k) = d => Copies(logs22, k) <= 1)

\* two messages were read into one block, the part of day 0 was written
\* and the insert failed; the first message was read again, written and
\* committed, and the merge left one row: day 1 was never written and its
\* message is still on the topic
C20_Witness ==
    /\ committed = 1
    /\ pos = 1
    /\ reads = 3
    /\ Len(topic) = 1
    /\ inserted # {}
    /\ \A r \in inserted : PartitionOf(r) = 0
    /\ Len(logs22[0]) = 1
    /\ Collapsed(logs22[0][1])
    /\ \A k \in AllKeys : Copies(logs22, k) <= 1

\* the sorting keys held by the store
StoreKeys(store) == {SortKey(r) : r \in StoreRows(store)}

\* what a tenant has in the two tables and what the four queries return
\* for it
TeamView(store, rollup, team) ==
    [rows   |-> {r \in StoreRows(store) : r.team_id = team},
     rollup |-> [k \in {x \in BagToSet(RollupSum(rollup)) : x[1] = team} |->
                    CopiesIn(k, RollupSum(rollup))],
     trace  |-> [t \in Traces |-> getByTrace(store, team, t)],
     search |-> [range \in Ranges |->
                    [sub \in Subs |-> searchByText(store, team, range, sub)]],
     counts |-> [range \in Ranges |-> aggregateCounts(store, team, range)],
     attrs  |-> [range \in Ranges |-> listAttributes(rollup, team, range)]]

\* the tenant holds every one of its keys in one row, returned once: a
\* merge has nothing of the tenant to collapse
NothingToCollapse(team) ==
    \A r \in StoreRows(logs22) :
        r.team_id = team =>
            /\ \A q \in StoreRows(logs22) :
                  (q.team_id = team /\ SortKey(q) = SortKey(r)) => q = r
            /\ getByTrace(logs22, team, r.trace_id)[r] = 1

\* a step that inserts rows of the block into logs22
BlockInserted == PrimaryWritten \/ FlushPartialFails

RemovedRows == StoreRows(logs22) \ StoreRows(logs22')

\* the row of EntryB as logs22 stores it for a message without a usable
\* team_id header; EntryC has the same sorting key
KeyOfEntryB == SortKey(Logs22Row(MvRow(EntryB, <<>>), 0))

ListCount(rollup, team, p) ==
    LET res == listAttributes(rollup, team, <<0, 2 * DaySecs>>) IN
    IF p \in DOMAIN res THEN res[p] ELSE 0

\* the attribute pairs the rollup can hold
AllPairs == {<<k[4], k[5]>> : k \in AllRollupKeys}

\* the rows of a block of one tenant that carry a qualifying pair
Deliveries(rows, team, p) ==
    Cardinality({i \in 1..Len(rows) :
                    /\ rows[i].team_id = team
                    /\ \E k \in RollupKeys(rows[i]) : <<k[4], k[5]>> = p})

MapAt(m, k) ==
    IF \E p \in m : p[1] = k THEN (CHOOSE p \in m : p[1] = k)[2] ELSE ""

\* CONSTRAINT assume_service_name_attr ASSUME
\*     attributes_map_str['service.name__str'] = service_name
assume_service_name_attr(r) ==
    MapAt(r.attributes_map_str, "service.name__str") = r.service_name

(***************************************************************************)
(* C24.  In every reachable state every row of logs22 satisfies the        *)
(* constraint the table assumes,                                           *)
(* attributes_map_str['service.name__str'] = service_name.                 *)
(***************************************************************************)
C24_AssumedConstraintHolds ==
    \A r \in StoreRows(logs22) : assume_service_name_attr(r)

====
